---- MODULE Spec2Model ----
(***************************************************************************)
(* Model of the RAG core of rebeatle/chatbot-RAG:                          *)
(*   src/src/text_processor.py  TextProcessor (token-budgeted chunking)    *)
(*   src/src/vector_store.py    VectorStore   (ChromaDB collection)        *)
(*   src/src/rag_engine.py      RAGEngine     (index / query pipelines)    *)
(* Texts are sequences of one-character strings over a four-character      *)
(* alphabet (a letter, a period, a space, a newline).                      *)
(***************************************************************************)
EXTENDS Integers, Sequences, FiniteSets, TLC

VARIABLES
    chunk_size,   \* TextProcessor.chunk_size
    text,         \* argument of split_text
    metadata,     \* argument of split_text (a dict; None is the empty dict)
    other,        \* content of a second document given to process_documents
    chunks,       \* value returned by split_text / process_documents
    seg_op,       \* which segmenter operation produced `chunks`
    flat,         \* a flat chunk sequence given to add_documents
    ids,          \* the ids add_documents built for `flat`
    index,        \* entries of the ChromaDB collection, in insertion order
    index_before, \* `index` as the last RAGEngine operation found it
    collection,   \* VectorStore.collection: "live", or "stale" once its collection is deleted
    dup_policy,   \* what collection.add does with an id the collection holds
    loop,         \* split_text's chunks, current_chunk, current_length between iterations
    loop_before,  \* `loop` as the last iteration found it
    pos,          \* index of the next paragraph of the `for para in paragraphs` loop
    processors,   \* two TextProcessor instances, as constructed
    returned,     \* what split_text returned on each of them, None before the call
    heap,         \* the metadata dicts alive, by object identity (position)
    made,         \* the chunks _create_chunk made, each with the identity of its metadata
    directory,    \* argument of load_directory
    loaded,       \* outcome of load_directory(directory), None before the call
    run,          \* outcome of the last RAGEngine operation
    calls,        \* collaborator calls made by the last RAGEngine operation
    retrieved,    \* relevant_docs of the last query
    runs_total,   \* chunks handed to a healthy collection.add since the last clear
    nops          \* number of RAGEngine operations so far

segVars == <<text, metadata, other, chunks, seg_op>>
idVars == <<flat, ids>>
stepVars == <<loop, loop_before, pos>>
twinVars == <<processors, returned>>
heapVars == <<heap, made>>
loadVars == <<directory, loaded>>
pipeVars == <<index, index_before, collection, dup_policy, run, calls, retrieved, runs_total, nops>>

vars == <<chunk_size, text, metadata, other, chunks, seg_op, loop, loop_before, pos,
          processors, returned,
          heap, made, flat, ids,
          index, index_before, collection, dup_policy, directory, loaded, run,
          calls, retrieved, runs_total, nops>>

----------------------------------------------------------------------------
(* Bounds *)

MaxLen == 7          \* longest text given to split_text
MaxChunkSize == 2    \* largest chunk_size tried
MaxFlat == 5         \* longest flat chunk sequence given to add_documents alone
MaxFiles == 2        \* most files in a directory
MaxTopK == 2         \* largest top_k asked of a query
MaxOps == 2          \* most RAGEngine operations in one behaviour
MaxListed == 4       \* most files in a directory given to load_directory alone
MaxMade == 3         \* most chunks made of one metadata argument by _create_chunk alone
MaxStepLen == 7      \* longest text split_text is stepped through
MaxOverlap == 2      \* largest chunk_overlap a TextProcessor is constructed with
MaxTwinLen == 4      \* longest text given to two TextProcessor instances

----------------------------------------------------------------------------
(* Strings *)

NL == "\n"
Chars == {"a", ".", " ", NL}
Whitespace == {" ", NL}

RECURSIVE SeqsUpTo(_, _)
SeqsUpTo(S, n) ==
    IF n = 0 THEN {<<>>}
    ELSE LET prev == SeqsUpTo(S, n - 1)
         IN  prev \cup {Append(s, c) : s \in {p \in prev : Len(p) = n - 1}, c \in S}

Texts == SeqsUpTo(Chars, MaxLen)

\* s has the separator sep starting at position i
HasAt(s, sep, i) ==
    /\ i + Len(sep) - 1 <= Len(s)
    /\ \A k \in 1..Len(sep) : s[i + k - 1] = sep[k]

Contains(s, sep) == \E i \in 1..Len(s) : HasAt(s, sep, i)

\* str.split(sep): left to right, non-overlapping, empty pieces kept
RECURSIVE SplitFrom(_, _, _, _)
SplitFrom(s, sep, i, cur) ==
    IF i > Len(s) THEN <<cur>>
    ELSE IF HasAt(s, sep, i) THEN <<cur>> \o SplitFrom(s, sep, i + Len(sep), <<>>)
    ELSE SplitFrom(s, sep, i + 1, Append(cur, s[i]))

Split(s, sep) == SplitFrom(s, sep, 1, <<>>)

\* str.strip(): drop leading and trailing whitespace
Strip(s) ==
    LET keep == {i \in 1..Len(s) : s[i] \notin Whitespace}
    IN  IF keep = {} THEN <<>>
        ELSE LET lo == CHOOSE i \in keep : \A j \in keep : i <= j
                 hi == CHOOSE i \in keep : \A j \in keep : j <= i
             IN  SubSeq(s, lo, hi)

\* sep.join(parts)
RECURSIVE Join(_, _)
Join(parts, sep) ==
    IF parts = <<>> THEN <<>>
    ELSE IF Len(parts) = 1 THEN parts[1]
    ELSE parts[1] \o sep \o Join(Tail(parts), sep)

\* list[-n:]
LastN(seq, n) ==
    IF Len(seq) <= n THEN seq ELSE SubSeq(seq, Len(seq) - n + 1, Len(seq))

----------------------------------------------------------------------------
(* TextProcessor *)

CharClass(c) ==
    IF c = "a" THEN "letter" ELSE IF c = "." THEN "punct"
    ELSE IF c = NL THEN "newline" ELSE "space"

\* count_tokens: len(encoding.encode(text)).  The cl100k_base encoding is
\* modelled by its pre-tokenisation on this alphabet: one token per maximal
\* run of letters, of periods and of newlines; a space merges into the token
\* that follows it.
count_tokens(s) ==
    Cardinality({i \in 1..Len(s) :
        /\ s[i] # " "
        /\ (i = 1 \/ CharClass(s[i - 1]) # CharClass(s[i]))})

\* dict.get(key, default)
Get(d, key, default) == IF key \in DOMAIN d THEN d[key] ELSE default

\* the dict d with d[key] = val assigned
Put(d, key, val) == (key :> val) @@ d

EmptyDict == [k \in {} |-> 0]

\* _create_chunk(text_parts, metadata, chunk_id)
create_chunk(text_parts, md, chunk_id) ==
    LET content == Join(text_parts, <<NL, NL>>)
        chunk_metadata == Put(Put(md, "chunk_id", chunk_id),
                              "tokens", count_tokens(content))
    IN  [content |-> content, metadata |-> chunk_metadata]

\* the loop state of split_text
SplitState(cs, cc, cl) == [chunks |-> cs, current_chunk |-> cc, current_length |-> cl]

\* Flush numbering the chunks from one
Flush_OneBased(st, md) ==
    Append(st.chunks, create_chunk(st.current_chunk, md, Len(st.chunks) + 1))

\* chunks.append(self._create_chunk(current_chunk, metadata, len(chunks)))
Flush(st, md) == Append(st.chunks, create_chunk(st.current_chunk, md, Len(st.chunks)))

\* SentenceStep leaving out a sentence that is over the budget by itself
SentenceStep_SkipOversized(st, raw, md, size) ==
    LET sentence == Strip(raw)
        sent_tokens == count_tokens(sentence)
        overlap_text == IF Len(st.current_chunk) >= 2
                        THEN Join(LastN(st.current_chunk, 2), <<" ">>) ELSE <<>>
        st1 == IF st.current_length + sent_tokens > size /\ st.current_chunk # <<>>
               THEN SplitState(Flush(st, md),
                               IF overlap_text # <<>> THEN <<overlap_text>> ELSE <<>>,
                               IF overlap_text # <<>> THEN count_tokens(overlap_text) ELSE 0)
               ELSE st
    IN  IF sentence = <<>> \/ sent_tokens > size THEN st
        ELSE SplitState(st1.chunks, Append(st1.current_chunk, sentence),
                        st1.current_length + sent_tokens)

\* body of `for sentence in sentences`
SentenceStep(st, raw, md, size) ==
    LET sentence == Strip(raw)
        sent_tokens == count_tokens(sentence)
        overlap_text == IF Len(st.current_chunk) >= 2
                        THEN Join(LastN(st.current_chunk, 2), <<" ">>) ELSE <<>>
        st1 == IF st.current_length + sent_tokens > size /\ st.current_chunk # <<>>
               THEN SplitState(Flush(st, md),
                               IF overlap_text # <<>> THEN <<overlap_text>> ELSE <<>>,
                               IF overlap_text # <<>> THEN count_tokens(overlap_text) ELSE 0)
               ELSE st
    IN  IF sentence = <<>> THEN st
        ELSE SplitState(st1.chunks, Append(st1.current_chunk, sentence),
                        st1.current_length + sent_tokens)

RECURSIVE SentenceLoop(_, _, _, _, _)
SentenceLoop(st, sentences, k, md, size) ==
    IF k > Len(sentences) THEN st
    ELSE SentenceLoop(SentenceStep(st, sentences[k], md, size), sentences, k + 1, md, size)

\* ParagraphStep going by sentences with the pending pieces still pending
ParagraphStep_KeepPending(st, raw, md, size) ==
    LET para == Strip(raw)
        para_tokens == count_tokens(para)
        st0 == st
        overlap_text == Join(LastN(st.current_chunk, 1), <<" ">>)
        st1 == IF st.current_length + para_tokens > size /\ st.current_chunk # <<>>
               THEN SplitState(Flush(st, md),
                               IF overlap_text # <<>> THEN <<overlap_text>> ELSE <<>>,
                               IF overlap_text # <<>> THEN count_tokens(overlap_text) ELSE 0)
               ELSE st
    IN  IF para = <<>> THEN st
        ELSE IF para_tokens > size
             THEN SentenceLoop(st0, Split(para, <<".", " ">>), 1, md, size)
             ELSE SplitState(st1.chunks, Append(st1.current_chunk, para),
                             st1.current_length + para_tokens)

\* ParagraphStep starting the next chunk without the overlap anchor
ParagraphStep_NoAnchor(st, raw, md, size) ==
    LET para == Strip(raw)
        para_tokens == count_tokens(para)
        st0 == IF st.current_chunk # <<>>
               THEN SplitState(Flush(st, md), <<>>, 0) ELSE st
        overlap_text == Join(LastN(st.current_chunk, 1), <<" ">>)
        st1 == IF st.current_length + para_tokens > size /\ st.current_chunk # <<>>
               THEN SplitState(Flush(st, md), <<>>, 0)
               ELSE st
    IN  IF para = <<>> THEN st
        ELSE IF para_tokens > size
             THEN SentenceLoop(st0, Split(para, <<".", " ">>), 1, md, size)
             ELSE SplitState(st1.chunks, Append(st1.current_chunk, para),
                             st1.current_length + para_tokens)

\* ParagraphStep flushing as soon as the budget is reached
ParagraphStep_FlushAtLimit(st, raw, md, size) ==
    LET para == Strip(raw)
        para_tokens == count_tokens(para)
        st0 == IF st.current_chunk # <<>>
               THEN SplitState(Flush(st, md), <<>>, 0) ELSE st
        overlap_text == Join(LastN(st.current_chunk, 1), <<" ">>)
        st1 == IF st.current_length + para_tokens >= size /\ st.current_chunk # <<>>
               THEN SplitState(Flush(st, md),
                               IF overlap_text # <<>> THEN <<overlap_text>> ELSE <<>>,
                               IF overlap_text # <<>> THEN count_tokens(overlap_text) ELSE 0)
               ELSE st
    IN  IF para = <<>> THEN st
        ELSE IF para_tokens > size
             THEN SentenceLoop(st0, Split(para, <<".", " ">>), 1, md, size)
             ELSE SplitState(st1.chunks, Append(st1.current_chunk, para),
                             st1.current_length + para_tokens)

\* body of `for para in paragraphs`
ParagraphStep(st, raw, md, size) ==
    LET para == Strip(raw)
        para_tokens == count_tokens(para)
        \* oversized paragraph: flush what is pending, then go by sentences
        st0 == IF st.current_chunk # <<>>
               THEN SplitState(Flush(st, md), <<>>, 0) ELSE st
        overlap_text == Join(LastN(st.current_chunk, 1), <<" ">>)
        \* normal paragraph: flush when it does not fit, keep the last piece
        st1 == IF st.current_length + para_tokens > size /\ st.current_chunk # <<>>
               THEN SplitState(Flush(st, md),
                               IF overlap_text # <<>> THEN <<overlap_text>> ELSE <<>>,
                               IF overlap_text # <<>> THEN count_tokens(overlap_text) ELSE 0)
               ELSE st
    IN  IF para = <<>> THEN st
        ELSE IF para_tokens > size
             THEN SentenceLoop(st0, Split(para, <<".", " ">>), 1, md, size)
             ELSE SplitState(st1.chunks, Append(st1.current_chunk, para),
                             st1.current_length + para_tokens)

RECURSIVE ParagraphLoop(_, _, _, _, _)
ParagraphLoop(st, paragraphs, k, md, size) ==
    IF k > Len(paragraphs) THEN st
    ELSE ParagraphLoop(ParagraphStep(st, paragraphs[k], md, size), paragraphs, k + 1, md, size)

\* split_text making a chunk of a blank text
split_text_BlankChunk(t, md, size) ==
    IF t = <<>> \/ Strip(t) = <<>> THEN <<create_chunk(<<t>>, md, 0)>>
    ELSE LET paragraphs == Split(t, <<NL, NL>>)
             st == ParagraphLoop(SplitState(<<>>, <<>>, 0), paragraphs, 1, md, size)
         IN  IF st.current_chunk # <<>> THEN Flush(st, md) ELSE st.chunks

\* split_text(text, metadata)
split_text(t, md, size) ==
    IF t = <<>> \/ Strip(t) = <<>> THEN <<>>
    ELSE LET paragraphs == Split(t, <<NL, NL>>)
             st == ParagraphLoop(SplitState(<<>>, <<>>, 0), paragraphs, 1, md, size)
         IN  IF st.current_chunk # <<>> THEN Flush(st, md) ELSE st.chunks

\* process_documents(documents)
RECURSIVE process_documents(_, _)
process_documents(documents, size) ==
    IF documents = <<>> THEN <<>>
    ELSE split_text(documents[1].content, documents[1].metadata, size)
           \o process_documents(Tail(documents), size)

----------------------------------------------------------------------------
(* Segmenter specification: split_text and process_documents applied to    *)
(* every text up to MaxLen.                                                *)

Metadatas == {EmptyDict, [file_name |-> "f1"]}
OtherTexts == {<<"a", NL, NL, "a">>}

Document(content, name) == [content |-> content, metadata |-> [file_name |-> name]]

None == <<>>
Some(v) == <<v>>

IdleSeg == text = <<>> /\ metadata = EmptyDict /\ other = <<>> /\ chunks = <<>> /\ seg_op = "none"
IdleIds == flat = <<>> /\ ids = <<>>
IdleStep ==
    /\ loop = SplitState(<<>>, <<>>, 0) /\ loop_before = SplitState(<<>>, <<>>, 0) /\ pos = 1
IdleTwin == processors = <<>> /\ returned = <<>>
IdleHeap == heap = <<>> /\ made = <<>>
IdleLoad == directory = [is_dir |-> FALSE, files |-> <<>>] /\ loaded = None
IdlePipe ==
    /\ index = <<>> /\ index_before = <<>> /\ collection = "live" /\ dup_policy = "ignore"
    /\ run = [op |-> "init", status |-> "returned", error |-> "none", value |-> None,
              fault |-> "none", ndocs |-> 0, nchunks |-> 0, swallowed |-> "none"]
    /\ calls = <<>> /\ retrieved = <<>> /\ runs_total = 0 /\ nops = 0

InitSplit ==
    /\ chunk_size \in 1..MaxChunkSize
    /\ text \in Texts
    /\ metadata = EmptyDict
    /\ other = <<>>
    /\ chunks = <<>>
    /\ seg_op = "none"
    /\ IdleIds /\ IdleLoad /\ IdleStep /\ IdleTwin /\ IdleHeap /\ IdlePipe

SplitText ==
    /\ seg_op = "none"
    /\ \E md \in Metadatas :
         /\ metadata' = md
         /\ chunks' = split_text(text, md, chunk_size)
    /\ seg_op' = "split_text"
    /\ UNCHANGED <<chunk_size, text, other>>
    /\ UNCHANGED <<idVars, loadVars, stepVars, twinVars, heapVars, pipeVars>>

ProcessDocuments ==
    /\ seg_op = "none"
    /\ \E o \in OtherTexts :
         /\ other' = o
         /\ chunks' = process_documents(<<Document(text, "f1"), Document(o, "f2")>>, chunk_size)
    /\ seg_op' = "process_documents"
    /\ UNCHANGED <<chunk_size, text, metadata>>
    /\ UNCHANGED <<idVars, loadVars, stepVars, twinVars, heapVars, pipeVars>>

NextSplit == SplitText \/ ProcessDocuments

SpecSplit == InitSplit /\ [][NextSplit]_vars

----------------------------------------------------------------------------
(* split_text one loop iteration at a time: the loop state is visible       *)
(* between the paragraphs.                                                  *)

InitLoop ==
    /\ chunk_size \in 1..MaxChunkSize
    /\ text \in SeqsUpTo(Chars, MaxStepLen)
    /\ metadata = [file_name |-> "f1"]
    /\ other = <<>> /\ chunks = <<>> /\ seg_op = "none"
    /\ IdleStep /\ IdleTwin /\ IdleHeap /\ IdleIds /\ IdleLoad /\ IdlePipe

\* one iteration of `for para in paragraphs`
Iterate ==
    /\ seg_op = "none"
    /\ Strip(text) # <<>>
    /\ pos <= Len(Split(text, <<NL, NL>>))
    /\ loop_before' = loop
    /\ loop' = ParagraphStep(loop, Split(text, <<NL, NL>>)[pos], metadata, chunk_size)
    /\ pos' = pos + 1
    /\ UNCHANGED <<chunk_size, segVars, twinVars, heapVars, idVars, loadVars, pipeVars>>

\* the early return of a blank text, or the last flush and `return chunks`
Return ==
    /\ seg_op = "none"
    /\ Strip(text) = <<>> \/ pos > Len(Split(text, <<NL, NL>>))
    /\ chunks' = IF Strip(text) = <<>> THEN <<>>
                 ELSE IF loop.current_chunk # <<>> THEN Flush(loop, metadata)
                 ELSE loop.chunks
    /\ seg_op' = "split_text"
    /\ UNCHANGED <<chunk_size, text, metadata, other, stepVars, twinVars, heapVars, idVars,
                   loadVars, pipeVars>>

NextLoop == Iterate \/ Return

SpecLoop == InitLoop /\ [][NextLoop]_vars

----------------------------------------------------------------------------
(* Two TextProcessor instances given the same call (SpecTwin) *)

\* TextProcessor.__init__: the instance keeps both arguments
TextProcessor(size, overlap) == [chunk_size |-> size, chunk_overlap |-> overlap]

\* split_text taking its budget from chunk_size less chunk_overlap
split_text_on_Overlapped(self, t, md) == split_text(t, md, self.chunk_size - self.chunk_overlap)

\* self.split_text(text, metadata): the only attribute of self the method and
\* its helpers read besides the encoding is self.chunk_size
split_text_on(self, t, md) == split_text(t, md, self.chunk_size)

InitTwin ==
    /\ chunk_size \in 1..MaxChunkSize
    /\ text \in SeqsUpTo(Chars, MaxTwinLen)
    /\ metadata \in Metadatas
    /\ other = <<>> /\ chunks = <<>> /\ seg_op = "none"
    /\ \E a, b \in 0..MaxOverlap :
          /\ a # b
          /\ processors = <<TextProcessor(chunk_size, a), TextProcessor(chunk_size, b)>>
    /\ returned = <<None, None>>
    /\ IdleStep /\ IdleHeap /\ IdleIds /\ IdleLoad /\ IdlePipe

\* processors[i].split_text(text, metadata)
SplitOn(i) ==
    /\ returned[i] = None
    /\ returned' = [returned EXCEPT ![i] = Some(split_text_on(processors[i], text, metadata))]
    /\ UNCHANGED <<chunk_size, segVars, processors, stepVars, heapVars, idVars, loadVars, pipeVars>>

NextTwin == SplitOn(1) \/ SplitOn(2)

SpecTwin == InitTwin /\ [][NextTwin]_vars

----------------------------------------------------------------------------
(* _create_chunk on the heap: dicts are objects, a chunk holds a reference  *)
(* to its metadata dict.  Specification of the chunks split_text makes of   *)
(* one metadata argument, numbered len(chunks).                             *)

\* the dicts a caller may pass: empty, a file's, and ones that already have
\* the keys _create_chunk writes
MetadataArgs ==
    {EmptyDict, [file_name |-> "f1"], [file_name |-> "f1", chunk_id |-> 7],
     [tokens |-> 9]}

\* the pending pieces a flush may join
PartLists == {<<<<"a">>>>, <<<<"a">>, <<"a">>>>, <<<<"a", " ", "a">>, <<".">>>>}

\* the caller's dict object, 0 when metadata is None
CallerRef(h) == IF h # <<>> /\ h[1].owner = "caller" THEN 1 ELSE 0

\* chunk_metadata bound to the caller's dict itself
copy_metadata_Alias(h, caller) ==
    IF caller # 0 /\ h[caller].dict # EmptyDict
    THEN [heap |-> h, ref |-> caller]
    ELSE [heap |-> Append(h, [dict |-> EmptyDict, owner |-> "chunk"]), ref |-> Len(h) + 1]

\* chunk_metadata = metadata.copy() if metadata else {}: a new dict object
copy_metadata(h, caller) ==
    [heap |-> Append(h, [dict |-> IF caller # 0 /\ h[caller].dict # EmptyDict
                                  THEN h[caller].dict ELSE EmptyDict,
                         owner |-> "chunk"]),
     ref |-> Len(h) + 1]

\* _create_chunk(text_parts, metadata, chunk_id): the heap it leaves and the
\* chunk it returns
create_chunk_on_heap(h, caller, text_parts, chunk_id) ==
    LET content == Join(text_parts, <<NL, NL>>)
        c == copy_metadata(h, caller)
        h1 == [c.heap EXCEPT ![c.ref].dict = Put(@, "chunk_id", chunk_id)]
        h2 == [h1 EXCEPT ![c.ref].dict = Put(@, "tokens", count_tokens(content))]
    IN  [heap |-> h2,
         chunk |-> [content |-> content, metadata |-> c.ref, text_parts |-> text_parts]]

InitMeta ==
    /\ chunk_size = 1
    /\ \E given \in BOOLEAN, d \in MetadataArgs :
         /\ given \/ d = EmptyDict
         /\ metadata = d
         /\ heap = IF given THEN <<[dict |-> d, owner |-> "caller"]>> ELSE <<>>
    /\ made = <<>>
    /\ text = <<>> /\ other = <<>> /\ chunks = <<>> /\ seg_op = "none"
    /\ IdleStep /\ IdleTwin /\ IdleIds /\ IdleLoad /\ IdlePipe

\* chunks.append(self._create_chunk(current_chunk, metadata, len(chunks)))
CreateChunk ==
    /\ Len(made) < MaxMade
    /\ \E parts \in PartLists :
         \E r \in {create_chunk_on_heap(heap, CallerRef(heap), parts, Len(made))} :
            /\ heap' = r.heap
            /\ made' = Append(made, r.chunk)
    /\ UNCHANGED <<chunk_size, segVars, stepVars, twinVars, idVars, loadVars, pipeVars>>

NextMeta == CreateChunk

SpecMeta == InitMeta /\ [][NextMeta]_vars

----------------------------------------------------------------------------
(* Python calls: a call either returns a value or raises *)

Ok(v) == [exc |-> "none", val |-> v]
Raise(e) == [exc |-> e, val |-> None]

----------------------------------------------------------------------------
(* VectorStore.add_documents: the ids *)

DigitChars == <<"0", "1", "2", "3", "4", "5", "6", "7", "8", "9">>

\* str(n) of a non-negative int, as the f-string formats it
RECURSIVE Str(_)
Str(n) == IF n < 10 THEN <<DigitChars[n + 1]>>
          ELSE Str(n \div 10) \o <<DigitChars[(n % 10) + 1]>>

\* MakeId without the flat position
MakeId_NoPosition(i, chunk) ==
    <<"d", "o", "c", "_">> \o Str(Get(chunk.metadata, "chunk_id", i))

\* f"doc_{i}_{chunk['metadata'].get('chunk_id', i)}"
MakeId(i, chunk) ==
    <<"d", "o", "c", "_">> \o Str(i) \o <<"_">> \o Str(Get(chunk.metadata, "chunk_id", i))

\* ids = [... for i, chunk in enumerate(chunks)]
MakeIds(cs) == [i \in 1..Len(cs) |-> MakeId(i - 1, cs[i])]

----------------------------------------------------------------------------
(* Specification of the id construction alone: add_documents' id list for  *)
(* every flat chunk sequence up to MaxFlat, chunk_id present or absent.    *)

FlatMetadatas ==
    {[file_name |-> "f1"]} \cup {[file_name |-> "f1", chunk_id |-> c] : c \in 0..1}

InitIds ==
    /\ chunk_size = 1
    /\ flat = <<>>
    /\ ids = <<>>
    /\ IdleSeg /\ IdleLoad /\ IdleStep /\ IdleTwin /\ IdleHeap /\ IdlePipe

AppendChunk ==
    /\ Len(flat) < MaxFlat
    /\ \E md \in FlatMetadatas :
         flat' = Append(flat, [content |-> <<"a">>, metadata |-> md])
    /\ ids' = <<>>
    /\ UNCHANGED <<chunk_size, segVars, loadVars, stepVars, twinVars, heapVars, pipeVars>>

BuildIds ==
    /\ flat # <<>>
    /\ ids' = MakeIds(flat)
    /\ UNCHANGED <<chunk_size, flat, segVars, loadVars, stepVars, twinVars, heapVars, pipeVars>>

NextIds == AppendChunk \/ BuildIds

SpecIds == InitIds /\ [][NextIds]_vars

----------------------------------------------------------------------------
(* DocumentLoader.load_directory *)

\* contents of the files a directory may hold
FileTexts == {<<>>, <<"a", NL, NL, "a">>}

\* a supported file: its content, and whether load_document returns or raises
Files == [content : FileTexts, loads : {TRUE}]
           \cup {[content |-> <<"a", NL, NL, "a">>, loads |-> FALSE]}

Directories ==
    {[is_dir |-> TRUE, files |-> fs] : fs \in SeqsUpTo(Files, MaxFiles)}
      \cup {[is_dir |-> FALSE, files |-> <<>>]}

\* the loop of load_directory over files k..: a file whose load raises, or
\* whose content is blank, is skipped
RECURSIVE LoadFiles(_, _)
LoadFiles(files, k) ==
    IF k > Len(files) THEN <<>>
    ELSE LET f == files[k]
             doc == [content |-> f.content,
                     metadata |-> [file_name |-> <<"f">> \o Str(k), file_type |-> "text"]]
         IN  (IF f.loads /\ Strip(f.content) # <<>> THEN <<doc>> ELSE <<>>)
               \o LoadFiles(files, k + 1)

\* load_directory without the try/except around load_document
load_directory_Abort(dir) ==
    IF ~dir.is_dir THEN Raise("not_a_directory")
    ELSE IF \E k \in 1..Len(dir.files) : ~dir.files[k].loads THEN Raise("load_failed")
    ELSE Ok(LoadFiles(dir.files, 1))

\* load_directory(directory_path)
load_directory(dir) ==
    IF ~dir.is_dir THEN Raise("not_a_directory") ELSE Ok(LoadFiles(dir.files, 1))

----------------------------------------------------------------------------
(* Specification of the loader alone: load_directory of every listing of up *)
(* to MaxListed files, and of a path that is no directory.                  *)

InitLoad ==
    /\ chunk_size = 1
    /\ directory \in {[is_dir |-> d, files |-> <<>>] : d \in BOOLEAN}
    /\ loaded = None
    /\ IdleSeg /\ IdleIds /\ IdleStep /\ IdleTwin /\ IdleHeap /\ IdlePipe

\* one more supported file under the directory
AddFile ==
    /\ directory.is_dir
    /\ Len(directory.files) < MaxListed
    /\ \E f \in Files : directory' = [directory EXCEPT !.files = Append(@, f)]
    /\ loaded' = None
    /\ UNCHANGED <<chunk_size, segVars, idVars, stepVars, twinVars, heapVars, pipeVars>>

LoadDirectory ==
    /\ loaded = None
    /\ loaded' = Some(load_directory(directory))
    /\ UNCHANGED <<chunk_size, directory, segVars, idVars, stepVars, twinVars, heapVars, pipeVars>>

NextLoad == AddFile \/ LoadDirectory

SpecLoad == InitLoad /\ [][NextLoad]_vars

----------------------------------------------------------------------------
(* EmbeddingGenerator *)

\* SentenceTransformer.encode: a deterministic map from a text to a vector.
\* A vector is one of three directions 0, 1, 2 (0, 90 and 180 degrees).
encode(t) == count_tokens(t) % 3

\* cosine distance of two directions: 0, 1 or 2
Distance(a, b) == IF a >= b THEN a - b ELSE b - a

\* generate_embedding(text); out is what the model does
generate_embedding(t, out) ==
    IF out = "fail" THEN Raise("embedding_service") ELSE Ok(encode(t))

\* generate_embeddings(texts); out = "short" is a model returning one vector too few
generate_embeddings(texts, out) ==
    IF out = "fail" THEN Raise("embedding_service")
    ELSE LET n == IF out = "short" THEN Len(texts) - 1 ELSE Len(texts)
         IN  Ok([i \in 1..n |-> encode(texts[i])])

----------------------------------------------------------------------------
(* ChromaDB collection *)

IdsOf(idx) == {idx[i].id : i \in 1..Len(idx)}

\* collection.add(ids, documents, embeddings, metadatas): Chroma rejects an
\* empty or ragged batch and ids repeated within the batch; an id the
\* collection already holds is either skipped or rejected (dup_policy)
collection_add(idx, coll, policy, newids, documents, embeddings, metadatas, out) ==
    LET entry(i) == [id |-> newids[i], document |-> documents[i],
                     embedding |-> embeddings[i], metadata |-> metadatas[i]]
        fresh == SelectSeq([i \in 1..Len(newids) |-> entry(i)],
                           LAMBDA e : e.id \notin IdsOf(idx))
    IN  IF coll = "stale" \/ out = "fail" THEN Raise("vector_index")
        ELSE IF newids = <<>> \/ Len(embeddings) # Len(newids) THEN Raise("vector_index")
        ELSE IF \E i, j \in 1..Len(newids) : i # j /\ newids[i] = newids[j]
             THEN Raise("duplicate_ids")
        ELSE IF policy = "raise" /\ \E i \in 1..Len(newids) : newids[i] \in IdsOf(idx)
             THEN Raise("existing_ids")
        ELSE Ok(idx \o fresh)

\* the orders in which collection.query may return its n_results nearest
\* entries (positions in idx): nearest first, ties in any order
Nearest(idx, qe, k) ==
    LET m == IF k < Len(idx) THEN k ELSE Len(idx)
        d(i) == Distance(qe, idx[i].embedding)
    IN  {r \in [1..m -> 1..Len(idx)] :
           /\ \A i, j \in 1..m : i < j => r[i] # r[j] /\ d(r[i]) <= d(r[j])
           /\ \A i \in 1..m : \A o \in 1..Len(idx) :
                (\A j \in 1..m : r[j] # o) => d(r[i]) <= d(o)}

\* collection.query(query_embeddings=[qe], n_results=k): the result dict;
\* with_distances tells whether it has the key 'distances'
collection_query(idx, coll, qe, r, with_distances, out) ==
    LET base == [documents |-> <<[i \in 1..Len(r) |-> idx[r[i]].document]>>,
                 metadatas |-> <<[i \in 1..Len(r) |-> idx[r[i]].metadata]>>]
        dists == <<[i \in 1..Len(r) |-> Distance(qe, idx[r[i]].embedding)]>>
    IN  IF coll = "stale" \/ out = "fail" THEN Raise("vector_index")
        ELSE Ok(IF with_distances THEN Put(base, "distances", dists) ELSE base)

----------------------------------------------------------------------------
(* VectorStore *)

\* add_documents without the length check
add_documents_Unchecked(idx, coll, policy, cs, embeddings, out) ==
    LET r == collection_add(idx, coll, policy, MakeIds(cs),
                            [i \in 1..Len(cs) |-> cs[i].content], embeddings,
                            [i \in 1..Len(cs) |-> cs[i].metadata], out)
    IN  [exc |-> r.exc, val |-> IF r.exc = "none" THEN r.val ELSE idx, called |-> TRUE]

\* add_documents(chunks, embeddings); `called` tells whether collection.add was called
add_documents(idx, coll, policy, cs, embeddings, out) ==
    IF Len(cs) # Len(embeddings)
    THEN [exc |-> "count_mismatch", val |-> idx, called |-> FALSE]
    ELSE LET r == collection_add(idx, coll, policy, MakeIds(cs),
                                 [i \in 1..Len(cs) |-> cs[i].content], embeddings,
                                 [i \in 1..Len(cs) |-> cs[i].metadata], out)
         IN  [exc |-> r.exc, val |-> IF r.exc = "none" THEN r.val ELSE idx, called |-> TRUE]

\* collection.query writing the query embedding into the collection
entries_after_query_Cached(idx, qe) ==
    Append(idx, [id |-> <<"q">>, document |-> <<>>, embedding |-> qe,
                 metadata |-> EmptyDict])

\* the entries of the collection after search's collection.query(query_embeddings,
\* n_results), the only collection call of a query: a read
entries_after_query(idx, qe) == idx

\* the formatting loop of search over the result dict
FormatResults(results) ==
    IF results.documents # <<>> /\ Len(results.documents[1]) > 0
    THEN [i \in 1..Len(results.documents[1]) |->
            [content |-> results.documents[1][i],
             metadata |-> results.metadatas[1][i],
             distance |-> IF "distances" \in DOMAIN results
                          THEN Some(results.distances[1][i]) ELSE None]]
    ELSE <<>>

\* search letting the exception through
search_Reraise(q) == IF q.exc # "none" THEN Raise(q.exc) ELSE Ok(FormatResults(q.val))

\* search(query_embedding, top_k): q is the outcome of collection.query
search(q) == IF q.exc # "none" THEN Ok(<<>>) ELSE Ok(FormatResults(q.val))

----------------------------------------------------------------------------
(* RAGEngine.query *)

NO_INFO_ANSWER == "No encontre informacion relevante en los documentos indexados."
GENERATED_ANSWER == "generated"

\* 1 - doc['distance'] if doc['distance'] else None
Relevance(distance) ==
    IF distance # None /\ distance[1] # 0 THEN Some(1 - distance[1]) ELSE None

\* the sources loop building the list back to front
Sources_Reversed(relevant_docs) ==
    [i \in 1..Len(relevant_docs) |->
       LET doc == relevant_docs[Len(relevant_docs) + 1 - i]
       IN  [file |-> Get(doc.metadata, "file_name", "Desconocido"),
            chunk_id |-> Get(doc.metadata, "chunk_id", 0),
            relevance |-> Relevance(doc.distance)]]

\* the sources loop
Sources(relevant_docs) ==
    [i \in 1..Len(relevant_docs) |->
       [file |-> Get(relevant_docs[i].metadata, "file_name", "Desconocido"),
        chunk_id |-> Get(relevant_docs[i].metadata, "chunk_id", 0),
        relevance |-> Relevance(relevant_docs[i].distance)]]

\* generate_with_context answering with an error text instead of raising
generate_with_context_Swallow(question, relevant_docs, out) ==
    IF out = "fail" THEN Ok("error") ELSE Ok(GENERATED_ANSWER)

\* LLMClient.generate_with_context(question, relevant_docs); out is what Ollama does
generate_with_context(question, relevant_docs, out) ==
    IF out = "fail" THEN Raise("generative_model") ELSE Ok(GENERATED_ANSWER)

\* query without the short-circuit
NoResults_Never(relevant_docs) == FALSE

\* `if not relevant_docs`
NoResults(relevant_docs) == relevant_docs = <<>>

\* query(question, top_k) given the outcomes of its collaborators (near is
\* the order in which the collection returns its nearest entries): what it
\* returns or raises, the calls it made and the relevant_docs it saw
query(idx, coll, question, near, with_distances, emb_out, vi_out, llm_out) ==
    LET emb == generate_embedding(question, emb_out)
        s == search(collection_query(idx, coll, emb.val, near, with_distances, vi_out))
        g == generate_with_context(question, s.val, llm_out)
        upto_search == <<"generate_embedding", "collection.query">>
    IN  IF emb.exc # "none"
        THEN [exc |-> emb.exc, val |-> None, calls |-> <<"generate_embedding">>,
              relevant_docs |-> <<>>]
        ELSE IF s.exc # "none"
        THEN [exc |-> s.exc, val |-> None, calls |-> upto_search, relevant_docs |-> <<>>]
        ELSE IF NoResults(s.val)
        THEN [exc |-> "none",
              val |-> Some([answer |-> NO_INFO_ANSWER, sources |-> <<>>]),
              calls |-> upto_search, relevant_docs |-> s.val]
        ELSE IF g.exc # "none"
        THEN [exc |-> g.exc, val |-> None, calls |-> Append(upto_search, "client.chat"),
              relevant_docs |-> s.val]
        ELSE [exc |-> "none",
              val |-> Some([answer |-> g.val, sources |-> Sources(s.val),
                            num_sources |-> Len(s.val)]),
              calls |-> Append(upto_search, "client.chat"), relevant_docs |-> s.val]

----------------------------------------------------------------------------
(* RAGEngine.index_documents *)

\* index_documents without the early return
NoDocuments_Never(documents) == FALSE

\* `if not documents`
NoDocuments(documents) == documents = <<>>

\* index_documents asking for the embeddings chunk by chunk
index_documents_EmbedPerChunk(idx, coll, policy, size, dir, emb_out, add_out) ==
    LET ld == load_directory(dir)
        documents == ld.val
        cs == process_documents(documents, size)
        texts == [i \in 1..Len(cs) |-> cs[i].content]
        e == generate_embeddings(texts, emb_out)
        a == add_documents(idx, coll, policy, cs, e.val, add_out)
        upto_embed == <<"load_directory", "process_documents">>
                        \o [i \in 1..Len(cs) |-> "generate_embeddings"]
    IN  IF ld.exc # "none"
        THEN [exc |-> ld.exc, val |-> None, index |-> idx, calls |-> <<"load_directory">>,
              ndocs |-> 0, nchunks |-> 0, embedded |-> <<>>]
        ELSE IF NoDocuments(documents)
        THEN [exc |-> "none", val |-> None, index |-> idx, calls |-> <<"load_directory">>,
              ndocs |-> Len(documents), nchunks |-> 0, embedded |-> <<>>]
        ELSE IF e.exc # "none"
        THEN [exc |-> e.exc, val |-> None, index |-> idx, calls |-> upto_embed,
              ndocs |-> Len(documents), nchunks |-> Len(cs), embedded |-> texts]
        ELSE [exc |-> a.exc, val |-> None, index |-> a.val,
              calls |-> IF a.called THEN Append(upto_embed, "collection.add") ELSE upto_embed,
              ndocs |-> Len(documents), nchunks |-> Len(cs), embedded |-> texts]

\* index_documents(directory_path) given the outcomes of its collaborators:
\* what it returns or raises, the index it leaves, the calls it made and the
\* texts it handed to generate_embeddings
index_documents(idx, coll, policy, size, dir, emb_out, add_out) ==
    LET ld == load_directory(dir)
        documents == ld.val
        cs == process_documents(documents, size)
        texts == [i \in 1..Len(cs) |-> cs[i].content]
        e == generate_embeddings(texts, emb_out)
        a == add_documents(idx, coll, policy, cs, e.val, add_out)
        upto_embed == <<"load_directory", "process_documents", "generate_embeddings">>
    IN  IF ld.exc # "none"
        THEN [exc |-> ld.exc, val |-> None, index |-> idx, calls |-> <<"load_directory">>,
              ndocs |-> 0, nchunks |-> 0, embedded |-> <<>>]
        ELSE IF NoDocuments(documents)
        THEN [exc |-> "none", val |-> None, index |-> idx, calls |-> <<"load_directory">>,
              ndocs |-> Len(documents), nchunks |-> 0, embedded |-> <<>>]
        ELSE IF e.exc # "none"
        THEN [exc |-> e.exc, val |-> None, index |-> idx, calls |-> upto_embed,
              ndocs |-> Len(documents), nchunks |-> Len(cs), embedded |-> texts]
        ELSE [exc |-> a.exc, val |-> None, index |-> a.val,
              calls |-> IF a.called THEN Append(upto_embed, "collection.add") ELSE upto_embed,
              ndocs |-> Len(documents), nchunks |-> Len(cs), embedded |-> texts]

----------------------------------------------------------------------------
(* The RAG engine: one action per RAGEngine operation.  The collaborators'  *)
(* outcomes are inputs of the action.                                      *)

Outcomes == {"ok", "fail"}

\* the collaborator that fails during an operation, if one does: the run stops
\* at the first failure, so at most one failure is seen in a run
IndexFaults == {"none", "embedding_service", "embedding_short", "vector_index"}
QueryFaults == {"none", "embedding_service", "vector_index", "generative_model"}
Questions == {<<"a">>, <<"a", " ", "a">>}

Status(exc) == IF exc = "none" THEN "returned" ELSE "raised"

Init ==
    /\ chunk_size \in 1..MaxChunkSize
    /\ index = <<>>
    /\ index_before = <<>>
    /\ collection = "live"
    /\ dup_policy \in {"ignore", "raise"}
    /\ run = [op |-> "init", status |-> "returned", error |-> "none", value |-> None,
              fault |-> "none", ndocs |-> 0, nchunks |-> 0, swallowed |-> "none"]
    /\ calls = <<>>
    /\ retrieved = <<>>
    /\ runs_total = 0
    /\ nops = 0
    /\ IdleSeg /\ IdleIds /\ IdleLoad /\ IdleStep /\ IdleTwin /\ IdleHeap

IndexDocuments ==
    /\ nops < MaxOps
    /\ \E dir \in Directories, fault \in IndexFaults :
         LET emb_out == IF fault = "embedding_service" THEN "fail"
                        ELSE IF fault = "embedding_short" THEN "short" ELSE "ok"
             add_out == IF fault = "vector_index" THEN "fail" ELSE "ok"
         IN  \E r \in {index_documents(index, collection, dup_policy, chunk_size,
                                        dir, emb_out, add_out)} :
             LET healthy == /\ "collection.add" \in {r.calls[i] : i \in 1..Len(r.calls)}
                            /\ collection = "live" /\ add_out = "ok"
             IN
             /\ index' = r.index
             /\ run' = [op |-> "index", status |-> Status(r.exc), error |-> r.exc,
                        value |-> r.val, fault |-> fault, ndocs |-> r.ndocs,
                        nchunks |-> r.nchunks, swallowed |-> "none",
                        embedded |-> r.embedded]
             /\ calls' = r.calls
             /\ runs_total' = IF healthy THEN runs_total + r.nchunks ELSE runs_total
    /\ retrieved' = <<>>
    /\ index_before' = index
    /\ nops' = nops + 1
    /\ UNCHANGED <<chunk_size, collection, dup_policy, segVars, idVars, loadVars, stepVars, twinVars, heapVars>>

Query ==
    /\ nops < MaxOps
    /\ \E question \in Questions, top_k \in 1..MaxTopK, with_distances \in BOOLEAN,
          fault \in QueryFaults :
         LET emb_out == IF fault = "embedding_service" THEN "fail" ELSE "ok"
             vi_out == IF fault = "vector_index" THEN "fail" ELSE "ok"
             llm_out == IF fault = "generative_model" THEN "fail" ELSE "ok"
             vi_fails == emb_out = "ok" /\ (collection = "stale" \/ vi_out = "fail")
         IN  \E near \in Nearest(index, encode(question), top_k) :
             \E r \in {query(index, collection, question, near, with_distances,
                             emb_out, vi_out, llm_out)} :
               /\ run' = [op |-> "query", status |-> Status(r.exc), error |-> r.exc,
                          value |-> r.val, fault |-> fault, ndocs |-> 0, nchunks |-> 0,
                          swallowed |-> IF vi_fails THEN "collection.query" ELSE "none",
                          top_k |-> top_k]
               /\ calls' = r.calls
               /\ retrieved' = r.relevant_docs
               /\ index' = IF emb_out = "ok"
                            THEN entries_after_query(index, encode(question)) ELSE index
    /\ index_before' = index
    /\ nops' = nops + 1
    /\ UNCHANGED <<chunk_size, collection, dup_policy, runs_total, segVars, idVars, loadVars, stepVars, twinVars, heapVars>>

\* clear_index() / VectorStore.clear_collection(): delete_collection, then
\* create_collection, any exception printed and dropped
ClearIndex ==
    /\ nops < MaxOps
    /\ \E del_out \in Outcomes, create_out \in Outcomes :
         LET del_fails == collection = "stale" \/ del_out = "fail"
         IN  /\ index' = IF del_fails THEN index ELSE <<>>
             /\ collection' = IF del_fails THEN collection
                              ELSE IF create_out = "fail" THEN "stale" ELSE "live"
             /\ calls' = IF del_fails THEN <<"delete_collection">>
                         ELSE <<"delete_collection", "create_collection">>
             /\ runs_total' = IF del_fails THEN runs_total ELSE 0
             /\ run' = [op |-> "clear", status |-> "returned", error |-> "none",
                        value |-> None,
                        fault |-> IF del_out = "fail" \/ (~del_fails /\ create_out = "fail")
                                  THEN "vector_index" ELSE "none",
                        ndocs |-> 0, nchunks |-> 0,
                        swallowed |-> IF del_fails THEN "delete_collection"
                                      ELSE IF create_out = "fail" THEN "create_collection"
                                      ELSE "none"]
    /\ retrieved' = <<>>
    /\ index_before' = index
    /\ nops' = nops + 1
    /\ UNCHANGED <<chunk_size, dup_policy, segVars, idVars, loadVars, stepVars, twinVars, heapVars>>

\* get_stats(): collection.count() of the collection the store holds
GetStats ==
    /\ nops < MaxOps
    /\ \E out \in Outcomes :
         LET fails == collection = "stale" \/ out = "fail"
         IN  run' = [op |-> "stats", status |-> IF fails THEN "raised" ELSE "returned",
                     error |-> IF fails THEN "vector_index" ELSE "none",
                     value |-> IF fails THEN None ELSE Some([count |-> Len(index)]),
                     fault |-> IF out = "fail" THEN "vector_index" ELSE "none",
                     ndocs |-> 0, nchunks |-> 0, swallowed |-> "none"]
    /\ calls' = <<"collection.count">>
    /\ retrieved' = <<>>
    /\ index_before' = index
    /\ nops' = nops + 1
    /\ UNCHANGED <<chunk_size, index, collection, dup_policy, runs_total, segVars, idVars, loadVars, stepVars, twinVars, heapVars>>

\* RAGEngine(): VectorStore._initialize get_or_create_collection on the
\* persisted store
Restart ==
    /\ nops < MaxOps
    /\ collection' = "live"
    /\ run' = [op |-> "init", status |-> "returned", error |-> "none", value |-> None,
               fault |-> "none", ndocs |-> 0, nchunks |-> 0, swallowed |-> "none"]
    /\ calls' = <<"get_or_create_collection", "collection.count">>
    /\ retrieved' = <<>>
    /\ index_before' = index
    /\ nops' = nops + 1
    /\ UNCHANGED <<chunk_size, index, dup_policy, runs_total, segVars, idVars, loadVars, stepVars, twinVars, heapVars>>

Next == IndexDocuments \/ Query \/ ClearIndex \/ GetStats \/ Restart

Spec == Init /\ [][Next]_vars

----------------------------------------------------------------------------
(* Properties of the segmenter (SpecSplit) *)

Paragraphs == Split(text, <<NL, NL>>)

\* content is one whole trimmed paragraph of the text, over chunk_size and
\* without the sentence separator
LoneOversized(content) ==
    /\ count_tokens(content) > chunk_size
    /\ ~Contains(content, <<".", " ">>)
    /\ \E k \in 1..Len(Paragraphs) : Strip(Paragraphs[k]) = content

\* C1: every chunk split_text returns has a recorded token count of at most
\* chunk_size, unless it is a single oversized paragraph without ". "
C1_ChunksWithinSize ==
    seg_op = "split_text" =>
      \A i \in 1..Len(chunks) :
         \/ chunks[i].metadata.tokens <= chunk_size
         \/ LoneOversized(chunks[i].content)

\* the chunks of the flat sequence that come from the document named f
PerDocument(f) == SelectSeq(chunks, LAMBDA c : c.metadata.file_name = f)

ZeroBased(cs) == \A i \in 1..Len(cs) : cs[i].metadata.chunk_id = i - 1

\* C2: the chunk ids split_text assigns are 0, 1, ..., n-1 in emission order,
\* and process_documents restarts the numbering at 0 for every document
C2_ChunkIdsContiguous ==
    /\ seg_op = "split_text" => ZeroBased(chunks)
    /\ seg_op = "process_documents" =>
         /\ chunks = PerDocument("f1") \o PerDocument("f2")
         /\ ZeroBased(PerDocument("f1"))
         /\ ZeroBased(PerDocument("f2"))

C2_Witness ==
    /\ seg_op = "process_documents"
    /\ Len(PerDocument("f1")) >= 2
    /\ Len(PerDocument("f2")) >= 2

----------------------------------------------------------------------------
(* Properties of the id construction (SpecIds) *)

\* C4: the ids add_documents builds in one call are pairwise distinct
C4_IdsDistinct ==
    \A i, j \in 1..Len(ids) : i # j => ids[i] # ids[j]

\* ids were built for a sequence in which two chunks share a chunk_id and
\* another chunk has none
C4_Witness ==
    /\ Len(ids) = Len(flat)
    /\ \E i, j, k \in 1..Len(flat) :
         /\ i # j
         /\ "chunk_id" \in DOMAIN flat[i].metadata
         /\ "chunk_id" \in DOMAIN flat[j].metadata
         /\ flat[i].metadata.chunk_id = flat[j].metadata.chunk_id
         /\ "chunk_id" \notin DOMAIN flat[k].metadata

----------------------------------------------------------------------------
(* Properties of the engine (Spec) *)

Called(c) == \E i \in 1..Len(calls) : calls[i] = c
TimesCalled(c) == Cardinality({i \in 1..Len(calls) : calls[i] = c})

\* C3: with no clear in between, the index holds as many entries as the
\* index runs handed to the collection
C3_CountIsSumOfRuns ==
    collection = "live" => Len(index) = runs_total

\* C5: a source's relevance is 1 - distance whenever the distance is known,
\* and absent only when the distance is absent
C5_RelevanceIsOneMinusDistance ==
    (run.op = "query" /\ run.status = "returned" /\ retrieved # <<>>) =>
      \A i \in 1..Len(retrieved) :
         LET d == retrieved[i].distance
             rel == run.value[1].sources[i].relevance
         IN  /\ d # None => rel = Some(1 - d[1])
             /\ rel = None => d = None

\* C6: a search that returns no result makes query return the fixed answer
\* with no sources, the generative model never called
C6_NoResultsShortCircuit ==
    (run.op = "query" /\ Called("collection.query") /\ retrieved = <<>>) =>
      /\ run.status = "returned"
      /\ run.value = Some([answer |-> NO_INFO_ANSWER, sources |-> <<>>])
      /\ ~Called("client.chat")

\* the search of an index that holds no entry
C6_Witness ==
    /\ run.op = "query" /\ Called("collection.query") /\ retrieved = <<>>
    /\ run.swallowed = "none" /\ index = <<>>

\* C7: an embedding batch shorter than the chunk sequence makes add_documents
\* raise before any collection call; the index is left as it was and
\* index_documents raises
C7_MismatchRaisesBeforeStore ==
    (run.op = "index" /\ run.fault = "embedding_short" /\ run.ndocs > 0) =>
      /\ run.status = "raised"
      /\ run.error = "count_mismatch"
      /\ ~Called("collection.add")
      /\ index = index_before

C7_Witness ==
    /\ run.op = "index" /\ run.fault = "embedding_short" /\ run.status = "raised"
    /\ run.nchunks >= 2 /\ index # <<>>

\* C8 as stated: with no document loaded the indexing operation returns 0
C8_ReturnsZero ==
    (run.op = "index" /\ run.error # "not_a_directory" /\ run.ndocs = 0) =>
      run.value = Some(0)

\* C8 (amended): with no document loaded index_documents returns None and
\* calls neither the segmenter, nor the Embedding Service, nor the Vector Index
C8_EmptyLoadIsNoOp ==
    (run.op = "index" /\ run.error # "not_a_directory" /\ run.ndocs = 0) =>
      /\ run.status = "returned"
      /\ run.value = None
      /\ calls = <<"load_directory">>
      /\ index = index_before

C8_Witness ==
    /\ run.op = "index" /\ run.status = "returned" /\ run.ndocs = 0
    /\ calls = <<"load_directory">> /\ index # <<>>

\* C9: a Vector Index failure during the search gives an empty result list,
\* and query returns the fixed answer with no sources, without raising and
\* without calling the generative model
C9_SearchFailureDegrades ==
    (run.op = "query" /\ run.swallowed = "collection.query") =>
      /\ retrieved = <<>>
      /\ run.status = "returned"
      /\ run.value = Some([answer |-> NO_INFO_ANSWER, sources |-> <<>>])
      /\ ~Called("client.chat")

\* the search failed on an index that holds entries
C9_Witness ==
    /\ run.op = "query" /\ run.swallowed = "collection.query"
    /\ run.fault = "vector_index" /\ index # <<>>

\* C10: a failure of the Embedding Service, of the store step or of the
\* generative model is raised to the caller; the failing call is the last
\* call of the run and is made once; query returns nothing
C10_FailuresPropagate ==
    /\ (run.op = "index" /\ run.fault = "embedding_service" /\ run.ndocs > 0) =>
         /\ run.status = "raised" /\ run.error = "embedding_service"
         /\ calls = <<"load_directory", "process_documents", "generate_embeddings">>
    /\ (run.op = "index" /\ run.fault = "vector_index" /\ run.ndocs > 0) =>
         /\ run.status = "raised" /\ run.error = "vector_index"
         /\ calls = <<"load_directory", "process_documents", "generate_embeddings",
                      "collection.add">>
    /\ (run.op = "query" /\ run.fault = "embedding_service") =>
         /\ run.status = "raised" /\ run.error = "embedding_service"
         /\ run.value = None
         /\ calls = <<"generate_embedding">>
    /\ (run.op = "query" /\ run.fault = "generative_model" /\ retrieved # <<>>) =>
         /\ run.status = "raised" /\ run.error = "generative_model"
         /\ run.value = None
         /\ calls = <<"generate_embedding", "collection.query", "client.chat">>

\* the generative model failed on a query that had retrieved entries
C10_Witness ==
    /\ run.op = "query" /\ run.fault = "generative_model" /\ retrieved # <<>>
    /\ run.status = "raised" /\ TimesCalled("client.chat") = 1

\* C11: a Vector Index failure during clear_index is raised to the caller;
\* clear_index returns only with the index emptied and the collection usable
C11_ClearFailurePropagates ==
    run.op = "clear" =>
      /\ run.fault = "vector_index" => run.status = "raised"
      /\ run.status = "returned" => (index = <<>> /\ collection = "live")

----------------------------------------------------------------------------
(* Further properties of the segmenter (SpecSplit) *)

IsPrefix(p, s) == Len(p) <= Len(s) /\ SubSeq(s, 1, Len(p)) = p

\* the trimmed non-empty pieces of a split
NonEmptyPieces(pieces) ==
    SelectSeq([i \in 1..Len(pieces) |-> Strip(pieces[i])], LAMBDA x : x # <<>>)

TrimmedParagraphs == NonEmptyPieces(Paragraphs)

\* the sentences the sentence path makes of a paragraph
SentencesOf(para) == NonEmptyPieces(Split(para, <<".", " ">>))

\* the first paragraph is over chunk_size and none of its sentences is
FirstParagraphOversized ==
    /\ TrimmedParagraphs # <<>>
    /\ count_tokens(TrimmedParagraphs[1]) > chunk_size
    /\ \A k \in 1..Len(SentencesOf(TrimmedParagraphs[1])) :
         count_tokens(SentencesOf(TrimmedParagraphs[1])[k]) <= chunk_size

\* the pieces a chunk's content was joined from
PiecesOf(c) == Split(c.content, <<NL, NL>>)

\* C12: when the first paragraph is oversized and its sentences are not,
\* split_text returns at least two chunks and the second begins with the
\* last sentence, or the last two sentences, of the first
C12_OverlapCarry ==
    (seg_op = "split_text" /\ FirstParagraphOversized) =>
      /\ Len(chunks) >= 2
      /\ LET last == LastN(PiecesOf(chunks[1]), 2)
         IN  \/ IsPrefix(last[Len(last)], chunks[2].content)
             \/ IsPrefix(Join(last, <<" ">>), chunks[2].content)
             \/ IsPrefix(Join(last, <<NL, NL>>), chunks[2].content)

\* the first piece of chunk i repeats the end of chunk i - 1: its last piece,
\* or its last two pieces joined by a space
CarriesOverlap(cs, i) ==
    /\ i >= 2
    /\ LET prev == PiecesOf(cs[i - 1])
           first == PiecesOf(cs[i])[1]
       IN  first = prev[Len(prev)] \/ first = Join(LastN(prev, 2), <<" ">>)

\* the pieces of chunks i.. in order, the first piece left out of the chunks
\* that drop says carry an overlap
RECURSIVE Rebuild(_, _, _)
Rebuild(cs, drop, i) ==
    IF i > Len(cs) THEN <<>>
    ELSE (IF drop[i] THEN Tail(PiecesOf(cs[i])) ELSE PiecesOf(cs[i]))
           \o Rebuild(cs, drop, i + 1)

\* C13: the chunks' contents in chunk_id order, overlap-carried prefixes
\* dropped, give back the trimmed non-empty paragraphs joined by blank lines
C13_RoundTrip ==
    seg_op = "split_text" =>
      \E drop \in [1..Len(chunks) -> BOOLEAN] :
         /\ \A i \in 1..Len(chunks) : drop[i] => CarriesOverlap(chunks, i)
         /\ Join(Rebuild(chunks, drop, 1), <<NL, NL>>)
              = Join(TrimmedParagraphs, <<NL, NL>>)

RECURSIVE SumTokens(_)
SumTokens(pieces) ==
    IF pieces = <<>> THEN 0 ELSE count_tokens(pieces[1]) + SumTokens(Tail(pieces))

\* C14: a text whose paragraphs together fit in chunk_size gives exactly one
\* chunk, with chunk_id 0, holding the trimmed non-empty paragraphs in order
\* joined by blank lines
C14_FittingTextIsOneChunk ==
    seg_op = "split_text" =>
      \A paras \in {TrimmedParagraphs} :
         (paras # <<>> /\ SumTokens(paras) <= chunk_size) =>
           /\ Len(chunks) = 1
           /\ chunks[1].metadata.chunk_id = 0
           /\ chunks[1].content = Join(paras, <<NL, NL>>)

\* two paragraphs that fill the budget exactly, in one chunk
C14_Witness ==
    /\ seg_op = "split_text" /\ Len(chunks) = 1
    /\ Len(TrimmedParagraphs) >= 2
    /\ SumTokens(TrimmedParagraphs) = chunk_size

\* C15: split_text returns the empty sequence for a text that is empty (or
\* None) or holds nothing but whitespace, blank-line separators included,
\* with or without metadata
C15_BlankTextNoChunks ==
    (seg_op = "split_text" /\ Strip(text) = <<>>) => chunks = <<>>

\* a text of blank-line separators only, split with metadata
C15_Witness ==
    /\ seg_op = "split_text" /\ chunks = <<>>
    /\ Strip(text) = <<>> /\ Contains(text, <<NL, NL>>) /\ Len(Paragraphs) >= 3
    /\ metadata # EmptyDict

\* C19: a text of one paragraph that is over chunk_size and has no ". "
\* gives exactly one chunk: the whole trimmed paragraph, over chunk_size
C19_UnsplittableParagraph ==
    seg_op = "split_text" =>
      \A paras \in {TrimmedParagraphs} :
         (Len(paras) = 1 /\ count_tokens(paras[1]) > chunk_size
            /\ ~Contains(paras[1], <<".", " ">>)) =>
           /\ Len(chunks) = 1
           /\ chunks[1].content = paras[1]
           /\ chunks[1].metadata.tokens = count_tokens(paras[1])
           /\ chunks[1].metadata.tokens > chunk_size

\* a paragraph of sentences ended by periods not followed by a space
C19_Witness ==
    /\ seg_op = "split_text" /\ Len(chunks) = 1
    /\ Len(TrimmedParagraphs) = 1 /\ Len(Paragraphs) >= 2
    /\ Contains(text, <<".">>) /\ ~Contains(text, <<".", " ">>)
    /\ chunks[1].content = TrimmedParagraphs[1]
    /\ chunks[1].metadata.tokens > MaxChunkSize

\* the metadata dict of the i-th chunk made
MetadataOf(i) == heap[made[i].metadata].dict

\* the keys _create_chunk writes
StampedKeys == {"chunk_id", "tokens"}

\* the chunk_id and token count every chunk carries; the caller's dict is as
\* it was passed; no two chunks hold the same dict object, nor the caller's
Stamped ==
    /\ \A i \in 1..Len(made) :
         /\ MetadataOf(i).chunk_id = i - 1
         /\ MetadataOf(i).tokens = count_tokens(Join(made[i].text_parts, <<NL, NL>>))
         /\ made[i].content = Join(made[i].text_parts, <<NL, NL>>)
         /\ made[i].metadata # CallerRef(heap)
    /\ CallerRef(heap) # 0 => heap[CallerRef(heap)].dict = metadata
    /\ \A i, j \in 1..Len(made) : i # j => made[i].metadata # made[j].metadata

\* C21 as stated: every chunk carries every key/value pair of the caller's
\* metadata unchanged, plus its chunk_id and the token count of its joined
\* content; the caller's dict is not mutated and no dict object is shared
C21_MetadataCarried ==
    /\ Stamped
    /\ \A i \in 1..Len(made) : \A k \in DOMAIN metadata :
         k \in DOMAIN MetadataOf(i) /\ MetadataOf(i)[k] = metadata[k]

\* C21 (amended): every chunk carries the caller's key/value pairs unchanged
\* except under the keys chunk_id and tokens, which hold the chunk's own
\* chunk_id and the token count of its joined content; the caller's dict is
\* not mutated and no dict object is shared
C21_MetadataMerged ==
    /\ Stamped
    /\ \A i \in 1..Len(made) :
         /\ DOMAIN MetadataOf(i) = DOMAIN metadata \cup StampedKeys
         /\ \A k \in DOMAIN metadata \ StampedKeys : MetadataOf(i)[k] = metadata[k]

\* three chunks made of a caller's dict that has a chunk_id of its own
C21_Witness ==
    /\ Len(made) = 3 /\ CallerRef(heap) = 1
    /\ "chunk_id" \in DOMAIN metadata /\ metadata.chunk_id # 2
    /\ MetadataOf(3).chunk_id = 2 /\ MetadataOf(3).file_name = metadata.file_name
    /\ Len(made[3].text_parts) = 2

----------------------------------------------------------------------------
(* Properties of the loop of split_text (SpecLoop) *)

\* the paragraph the last iteration handled, trimmed
LastParagraph == Strip(Split(text, <<NL, NL>>)[pos - 1])

\* the last iteration emitted a chunk
Flushed == Len(loop.chunks) > Len(loop_before.chunks)

\* the first piece emitted or pending after the first nb chunks
FirstPieceAfter(nb) ==
    IF Len(loop.chunks) > nb THEN PiecesOf(loop.chunks[nb + 1])[1] ELSE loop.current_chunk[1]

\* C22: an oversized paragraph met with pieces pending makes split_text emit
\* exactly the pending pieces as the next chunk and go on from an empty
\* pending sequence and a zero count: what follows is what the sentences of
\* the paragraph give from scratch, starting with its first sentence
C22_OversizedFlushesPending ==
    pos > 1 =>
      \A para \in {LastParagraph} :
         (count_tokens(para) > chunk_size /\ loop_before.current_chunk # <<>>) =>
           LET nb == Len(loop_before.chunks)
               fresh == SentenceLoop(SplitState(<<>>, <<>>, 0), Split(para, <<".", " ">>),
                                     1, metadata, chunk_size)
           IN  /\ Len(loop.chunks) = nb + 1 + Len(fresh.chunks)
               /\ SubSeq(loop.chunks, 1, nb) = loop_before.chunks
               /\ loop.chunks[nb + 1].content = Join(loop_before.current_chunk, <<NL, NL>>)
               /\ loop.chunks[nb + 1].metadata.chunk_id = nb
               /\ \A i \in 1..Len(fresh.chunks) :
                    loop.chunks[nb + 1 + i].content = fresh.chunks[i].content
               /\ loop.current_chunk = fresh.current_chunk
               /\ loop.current_length = fresh.current_length
               /\ FirstPieceAfter(nb + 1) = SentencesOf(para)[1]

\* pieces were pending when a paragraph of several sentences came
C22_Witness ==
    /\ pos > 1 /\ count_tokens(LastParagraph) > chunk_size
    /\ loop_before.current_chunk # <<>>
    /\ Len(SentencesOf(LastParagraph)) >= 2
    /\ Len(loop.chunks) >= Len(loop_before.chunks) + 2

\* C23: a normal paragraph makes split_text flush exactly when a piece is
\* pending and the paragraph would take the count over chunk_size; the next
\* pending sequence is then the last piece of the flushed chunk followed by
\* the paragraph, and the next chunk starts with them
C23_NormalParagraphFlush ==
    pos > 1 =>
      \A para \in {LastParagraph} :
         (para # <<>> /\ count_tokens(para) <= chunk_size) =>
           LET nb == Len(loop_before.chunks)
               pending == loop_before.current_chunk
               last == pending[Len(pending)]
           IN  /\ Flushed <=> (pending # <<>> /\
                                 loop_before.current_length + count_tokens(para) > chunk_size)
               /\ Flushed =>
                    /\ Len(loop.chunks) = nb + 1
                    /\ loop.chunks[nb + 1].content = Join(pending, <<NL, NL>>)
                    /\ loop.current_chunk = <<last, para>>
                    /\ loop.current_length = count_tokens(last) + count_tokens(para)
                    /\ seg_op = "split_text" =>
                         chunks[Len(chunks)].content = last \o <<NL, NL>> \o para
               /\ ~Flushed =>
                    /\ loop.chunks = loop_before.chunks
                    /\ loop.current_chunk = Append(pending, para)
                    /\ loop.current_length = loop_before.current_length + count_tokens(para)

\* a flush of two pending pieces by the last paragraph of the text
C23_Witness ==
    /\ pos > 1 /\ seg_op = "split_text" /\ Flushed
    /\ LastParagraph # <<>> /\ count_tokens(LastParagraph) <= chunk_size
    /\ Len(loop_before.current_chunk) >= 2
    /\ Len(loop.current_chunk) = 2

----------------------------------------------------------------------------
(* Property of two TextProcessor instances (SpecTwin) *)

\* C24: two TextProcessor instances of the same chunk_size and different
\* chunk_overlap return the same chunk sequence (contents, chunk_ids, token
\* counts) for the same text and metadata
C24_OverlapIgnored ==
    (Len(returned) = 2 /\ returned[1] # None /\ returned[2] # None
       /\ processors[1].chunk_size = processors[2].chunk_size
       /\ processors[1].chunk_overlap # processors[2].chunk_overlap) =>
      /\ Len(returned[1][1]) = Len(returned[2][1])
      /\ \A i \in 1..Len(returned[1][1]) :
           /\ returned[1][1][i].content = returned[2][1][i].content
           /\ returned[1][1][i].metadata = returned[2][1][i].metadata

\* both instances returned several chunks, one of them with chunk_overlap
\* at least chunk_size
C24_Witness ==
    /\ Len(returned) = 2 /\ returned[1] # None /\ returned[2] # None
    /\ processors[1].chunk_overlap # processors[2].chunk_overlap
    /\ \E i \in 1..2 : processors[i].chunk_overlap >= processors[i].chunk_size
    /\ Len(returned[1][1]) >= 2

----------------------------------------------------------------------------
(* Further properties of the engine (Spec) *)

\* C16: query leaves the entries of the Vector Index, and so its count, as it
\* found them, whether it returns or raises; the index differs from what an
\* operation found only after index_documents or clear_index
C16_QueryIsReadOnly ==
    /\ run.op = "query" => index = index_before
    /\ index # index_before => run.op \in {"index", "clear"}

\* a query that retrieved entries of a non-empty index and answered
C16_Witness ==
    /\ run.op = "query" /\ run.status = "returned" /\ Called("client.chat")
    /\ retrieved # <<>> /\ index # <<>> /\ index = index_before

\* the positions of the files of a directory that load with a non-blank content
GoodFiles(files) ==
    {k \in 1..Len(files) : files[k].loads /\ Strip(files[k].content) # <<>>}

\* C17: load_directory of a directory returns exactly the files that load with
\* a non-blank content, in order, whatever the other files do; it raises only
\* for a path that is no directory
C17_LoadSkipsAndContinues ==
    loaded # None =>
      /\ loaded[1].exc # "none" <=> ~directory.is_dir
      /\ directory.is_dir =>
           /\ Len(loaded[1].val) = Cardinality(GoodFiles(directory.files))
           /\ \A i \in 1..Len(loaded[1].val) :
                \E k \in GoodFiles(directory.files) :
                   /\ Cardinality({j \in GoodFiles(directory.files) : j <= k}) = i
                   /\ loaded[1].val[i].content = directory.files[k].content
                   /\ loaded[1].val[i].metadata.file_name = <<"f">> \o Str(k)

\* a file that fails to load and a blank file, each followed by one that loads
C17_Witness ==
    /\ loaded # None /\ directory.is_dir /\ Len(directory.files) = 4
    /\ ~directory.files[1].loads
    /\ Strip(directory.files[3].content) = <<>>
    /\ loaded[1].exc = "none"
    /\ Len(loaded[1].val) = 2
    /\ loaded[1].val[1].metadata.file_name = <<"f", "2">>
    /\ loaded[1].val[2].metadata.file_name = <<"f", "4">>

\* C18: a query that retrieved entries returns as many sources as entries, at
\* most top_k, the i-th source naming the file and the chunk_id of the i-th
\* retrieved entry
C18_SourcesFollowRetrieval ==
    (run.op = "query" /\ run.status = "returned" /\ retrieved # <<>>) =>
      LET sources == run.value[1].sources
      IN  /\ Len(sources) = Len(retrieved)
          /\ Len(sources) <= run.top_k
          /\ run.value[1].num_sources = Len(retrieved)
          /\ \A i \in 1..Len(retrieved) :
               /\ sources[i].file = retrieved[i].metadata.file_name
               /\ sources[i].chunk_id = retrieved[i].metadata.chunk_id

\* two entries retrieved, of different chunks
C18_Witness ==
    /\ run.op = "query" /\ run.status = "returned" /\ Len(retrieved) = 2
    /\ retrieved[1].metadata.chunk_id # retrieved[2].metadata.chunk_id
    /\ Len(run.value[1].sources) = 2

IndexStages == <<"load_directory", "process_documents", "generate_embeddings",
                 "collection.add">>

\* C20: an index run calls load, segment, embed, store in that order, each at
\* most once; with documents loaded the Embedding Service is called exactly
\* once, with the contents of all chunks in flat order; the Vector Index is
\* written only after that call has returned embeddings
C20_StagesInOrder ==
    run.op = "index" =>
      /\ calls # <<>> /\ IsPrefix(calls, IndexStages)
      /\ run.ndocs > 0 =>
           /\ TimesCalled("generate_embeddings") = 1
           /\ Len(run.embedded) = run.nchunks
      /\ Called("collection.add") => run.fault # "embedding_service"
      /\ (run.status = "returned" /\ run.ndocs > 0 /\ index_before = <<>>) =>
           /\ Len(index) = Len(run.embedded)
           /\ \A i \in 1..Len(index) :
                /\ index[i].document = run.embedded[i]
                /\ index[i].embedding = encode(run.embedded[i])
                /\ IsPrefix(<<"d", "o", "c", "_">> \o Str(i - 1) \o <<"_">>, index[i].id)

\* a run over two documents of two chunks each that stored its entries
C20_Witness ==
    /\ run.op = "index" /\ run.status = "returned" /\ index_before = <<>>
    /\ run.ndocs = 2 /\ run.nchunks = 4 /\ Len(index) = 4
    /\ calls = IndexStages

====
